---- MODULE Spec2Model ----
(***************************************************************************)
(* A model of the Sweet part parser, new/sch_sweet_parser.cpp.             *)
(*                                                                         *)
(* The parser is a recursive descent parser over the token stream of the   *)
(* lexer it inherits from.  Every parse function of the source is an       *)
(* operator of the same name here; it maps the lexer state and the object  *)
(* it fills in (the source's `me') to the lexer state and the object at    *)
(* the point where the function returns or throws.  A thrown exception is  *)
(* the field `err' of the lexer state: once it is set, no later statement  *)
(* has an effect, which is how the exception unwinds to the caller of      *)
(* Parse.                                                                  *)
(***************************************************************************)
EXTENDS Integers, Sequences, FiniteSets, TLC

VARIABLES
    parts,      \* the PART objects held by the library table, by name
    contains,   \* SWEET_PARSER::contains, the parser's clause-seen bits
    input,      \* the tokens the lexer served to the parser's last Parse call
    pos,        \* number of tokens of input consumed by that call
    meName,     \* name of the PART given to that call, NULL before it
    err,        \* the exception that call ended with, NoErr if it returned
    what,       \* the argument of that exception (expected set, token)
    calls,      \* number of Parse calls made so far
    numeral,    \* unit converter: the numeral under conversion
    converted   \* unit converter: its result, NotYet before the call

vars == << parts, contains, input, pos, meName, err, what, calls, numeral, converted >>

(***************************************************************************)
(* Constants of the source.                                                *)
(***************************************************************************)
MAX_INHERITANCE_NESTING == 6
INTERNAL_PER_LOGICAL == 10000

(***************************************************************************)
(* Decimal numerals.  A numeral is a fixed-point decimal with five         *)
(* fractional digits, held as the integer value * FixedOne, so that "1" is *)
(* 100000, "0.5" is 50000 and "-2.25" is -225000.                          *)
(***************************************************************************)
FixedOne == 10 * INTERNAL_PER_LOGICAL

\* C++ conversion of a quotient to int: truncation toward zero
TruncDiv(n, d) == IF n >= 0 THEN n \div d ELSE -((-n) \div d)

\* int( aCoord * INTERNAL_PER_LOGICAL ): aCoord * 10000 is n * 10000 / FixedOne,
\* that is n / (FixedOne / 10000); the conversion to int truncates.
log2int(aCoord) == TruncDiv(aCoord, FixedOne \div INTERNAL_PER_LOGICAL)

\* strtod() of a decimal numeral is its value
strtod(aNumeral) == aNumeral

internal(aCoord) == log2int(strtod(aCoord))

(***************************************************************************)
(* Tokens.  A token is its kind (tok), its text and, for a number, its     *)
(* value.  Keywords are kinds of their own, named as in the source.        *)
(***************************************************************************)
LP == [tok |-> "T_LEFT", text |-> "(", num |-> 0]
RP == [tok |-> "T_RIGHT", text |-> ")", num |-> 0]
K(aKeyword) == [tok |-> "T_" \o aKeyword, text |-> aKeyword, num |-> 0]
Sym(aText) == [tok |-> "T_SYMBOL", text |-> aText, num |-> 0]
\* the numeral with value aValue / FixedOne
Num(aValue) == [tok |-> "T_NUMBER", text |-> ToString(aValue), num |-> aValue]
\* the numeral of a whole number
Whole(aUnits) == Num(aUnits * FixedOne)

(***************************************************************************)
(* The lexer the parser inherits from: its token stream, the number of     *)
(* tokens consumed, the current token and the pending exception.           *)
(***************************************************************************)
NoErr == "none"

Lexer(aTokens) ==
    [in |-> aTokens, pos |-> 0, tok |-> "T_NONE", text |-> "", num |-> 0,
     err |-> NoErr, what |-> ""]

Ok(s) == s.err = NoErr

\* a statement executes only while no exception is pending
When(s, aNew, aOld) == IF Ok(s) THEN aNew ELSE aOld

Throw(s, aKind, aArg) == IF Ok(s) THEN [s EXCEPT !.err = aKind, !.what = aArg] ELSE s

Expecting(s, aArg) == Throw(s, "Expecting", aArg)
Unexpected(s, aArg) == Throw(s, "Unexpected", aArg)
Duplicate(s, aTok) == Throw(s, "Duplicate", aTok)

NextTok(s) ==
    IF ~Ok(s) THEN s
    ELSE IF s.pos < Len(s.in)
         THEN LET t == s.in[s.pos + 1]
              IN  [s EXCEPT !.pos = @ + 1, !.tok = t.tok, !.text = t.text, !.num = t.num]
         ELSE [s EXCEPT !.tok = "T_EOF", !.text = "", !.num = 0]

\* every token that is not punctuation, a number or the end of input is a
\* symbol: plain symbols, quoted strings and keywords alike
IsSymbol(aTok) == aTok \notin {"T_LEFT", "T_RIGHT", "T_NUMBER", "T_EOF", "T_NONE"}

NeedLEFT(s) ==
    LET s1 == NextTok(s) IN IF s1.tok # "T_LEFT" THEN Expecting(s1, "T_LEFT") ELSE s1

NeedRIGHT(s) ==
    LET s1 == NextTok(s) IN IF s1.tok # "T_RIGHT" THEN Expecting(s1, "T_RIGHT") ELSE s1

NeedSYMBOL(s) ==
    LET s1 == NextTok(s) IN IF ~IsSymbol(s1.tok) THEN Expecting(s1, "T_SYMBOL") ELSE s1

NeedSYMBOLorNUMBER(s) ==
    LET s1 == NextTok(s)
    IN  IF ~IsSymbol(s1.tok) /\ s1.tok # "T_NUMBER" THEN Expecting(s1, "symbol|number") ELSE s1

NeedNUMBER(s, aExpectation) ==
    LET s1 == NextTok(s) IN IF s1.tok # "T_NUMBER" THEN Expecting(s1, aExpectation) ELSE s1

(***************************************************************************)
(* The objects of a PART as their constructors leave them.                 *)
(***************************************************************************)
NULL == "NULL"

POINT0 == [x |-> 0, y |-> 0]
FONT0 == [name |-> "", size |-> [height |-> 0, width |-> 0], bold |-> FALSE, italic |-> FALSE]
TEXT_EFFECTS0 ==
    [propName |-> "", pos |-> POINT0, angle |-> 0, font |-> FONT0, isVisible |-> FALSE]
FIELD0 == [text |-> "", effects |-> TEXT_EFFECTS0]
PROPERTY0 == [name |-> "", text |-> "", effects |-> TEXT_EFFECTS0]
PINTEXT0 == [text |-> "", font |-> FONT0, isVisible |-> TRUE]
PIN0 ==
    [pos |-> POINT0, angle |-> 0, length |-> 0, connectionType |-> "T_NONE",
     shape |-> "T_NONE", signal |-> PINTEXT0, padname |-> PINTEXT0, isVisible |-> TRUE]
POLY_LINE0 == [kind |-> "POLY_LINE", pts |-> << >>, lineWidth |-> 0, fillType |-> "T_NONE"]
BEZIER0 == [POLY_LINE0 EXCEPT !.kind = "BEZIER"]
RECTANGLE0 ==
    [kind |-> "RECTANGLE", start |-> POINT0, end |-> POINT0, lineWidth |-> 0,
     fillType |-> "T_NONE"]
CIRCLE0 ==
    [kind |-> "CIRCLE", center |-> POINT0, radius |-> 0, lineWidth |-> 0,
     fillType |-> "T_NONE"]
ARC0 ==
    [kind |-> "ARC", pos |-> POINT0, radius |-> 0, start |-> POINT0, end |-> POINT0,
     lineWidth |-> 0, fillType |-> "T_NONE"]
GR_TEXT0 ==
    [kind |-> "GR_TEXT", text |-> "", pos |-> POINT0, angle |-> 0, hjustify |-> "T_NONE",
     vjustify |-> "T_NONE", font |-> FONT0, isVisible |-> TRUE, fillType |-> "T_NONE"]

\* PART::clear(): every field back to its initial value
PART0 ==
    [extends |-> NULL, base |-> NULL, anchor |-> POINT0, reference |-> FIELD0,
     value |-> FIELD0, footprint |-> FIELD0, datasheet |-> FIELD0, model |-> FIELD0,
     properties |-> << >>, graphics |-> << >>, pins |-> << >>, contains |-> {}]

(***************************************************************************)
(* A parse function maps the lexer s and the object `me' to Res(s, me).    *)
(* Inside a function the record r also carries the function's locals: its  *)
(* saw-flags (saw) and its counter (count).  Each operator below takes r   *)
(* as it stands before a statement and yields r as it stands after it.     *)
(***************************************************************************)
Res(s, o) == [s |-> s, o |-> o]

\* function entry: the flags are false and the counter is zero
Enter(s, me) == [s |-> s, o |-> me, saw |-> {}, count |-> 0]

\* function exit: the locals go out of scope
Leave(r) == Res(r.s, r.o)

\* the member of o that the path of field names and indices leads to
RECURSIVE GetPath(_, _)
GetPath(o, aPath) ==
    IF Len(aPath) = 0 THEN o ELSE GetPath(o[Head(aPath)], Tail(aPath))

\* o with that member replaced by v
RECURSIVE SetPath(_, _, _)
SetPath(o, aPath, v) ==
    IF Len(aPath) = 0 THEN v
    ELSE [o EXCEPT ![Head(aPath)] = SetPath(@, Tail(aPath), v)]

\* tok = NextTok()
Advance(r) == [r EXCEPT !.s = NextTok(@)]

Right(r) == [r EXCEPT !.s = NeedRIGHT(@)]

Symbol(r) == [r EXCEPT !.s = NeedSYMBOL(@)]

SymbolOrNumber(r) == [r EXCEPT !.s = NeedSYMBOLorNUMBER(@)]

Number(r, aExpectation) == [r EXCEPT !.s = NeedNUMBER(@, aExpectation)]

Expect(r, aArg) == [r EXCEPT !.s = Expecting(@, aArg)]

Unexpect(r) == [r EXCEPT !.s = Unexpected(@, @.tok)]

\* if( tok != aTok ) Expecting( aTok )
ExpectTok(r, aTok) == IF r.s.tok # aTok THEN Expect(r, aTok) ELSE r

\* if( sawX ) Duplicate( aWhat ); and sawX = true, which the code does at
\* the end of the case, where it is reached only if nothing was thrown
OnceAs(r, aSaw, aWhat) ==
    [r EXCEPT !.s = IF aSaw \in r.saw THEN Duplicate(@, aWhat) ELSE @,
              !.saw = @ \cup {aSaw}]

\* if( sawX ) Duplicate( tok )
Once(r, aSaw) == OnceAs(r, aSaw, r.s.tok)

\* me->path = aValue, which is not reached while an exception is pending
Store(r, aPath, aValue) == [r EXCEPT !.o = When(r.s, SetPath(@, aPath, aValue), @)]

\* me->path = internal( CurText() )
StoreInternal(r, aPath) == Store(r, aPath, internal(r.s.num))

\* me->path = strtod( CurText(), NULL )
StoreNumber(r, aPath) == Store(r, aPath, strtod(r.s.num))

\* me->path = FromUTF8()
StoreText(r, aPath) == Store(r, aPath, r.s.text)

\* me->path = tok
StoreTok(r, aPath) == Store(r, aPath, r.s.tok)

\* NeedNUMBER( aExpectation ); me->path = internal( CurText() )
NumberInto(r, aExpectation, aPath) == StoreInternal(Number(r, aExpectation), aPath)

\* after parseX( &me->path ): the lexer and the member are as the callee
\* left them
Back(r, aPath, aRes) == [r EXCEPT !.s = aRes.s, !.o = SetPath(@, aPath, aRes.o)]

\* the switch of parseBool on the symbol read
parseBoolCase(s, aBool) ==
    IF s.tok \in {"T_yes", "T_no"}
    THEN Res(s, When(s, s.tok = "T_yes", aBool))
    ELSE Res(Expecting(s, "yes|no"), aBool)

parseBool(s, aBool) == parseBoolCase(NeedSYMBOL(s), aBool)

\* *aBool = parseBool()
parseBoolIn(r, aPath) == Back(r, aPath, parseBool(r.s, GetPath(r.o, aPath)))

\* the optional angle of parseAt
parseAtAngle(r) ==
    IF Ok(r.s) /\ r.s.tok = "T_NUMBER"
    THEN Advance([r EXCEPT !.o.angle = strtod(r.s.num)])
    ELSE r

\* me is the object that holds *pos and *angle; every caller passes an angle
parseAt(s, me) ==
    LET r1 == NumberInto(Res(s, me), "at x", <<"pos", "x">>)
        r2 == NumberInto(r1, "at y", <<"pos", "y">>)
        r3 == parseAtAngle(Advance(r2))
    IN  Leave(ExpectTok(r3, "T_RIGHT"))

\* parseAt( &me->pos, &me->angle )
parseAtIn(r) == Back(r, << >>, parseAt(r.s, r.o))

(***************************************************************************)
(* parseFont: (font [FONT] (size HEIGHT WIDTH) [italic] [bold])            *)
(***************************************************************************)
\* case T_size
parseFontSize(r) ==
    LET r1 == NumberInto(Once(r, "sawSize"), "size height", <<"size", "height">>)
        r2 == NumberInto(r1, "size width", <<"size", "width">>)
    IN  Right(r2)

\* after a left parenthesis only size may come
parseFontLeft(r) == IF r.s.tok = "T_size" THEN parseFontSize(r) ELSE Expect(r, "size")

parseFontBody(r) ==
    CASE r.s.tok = "T_LEFT" -> parseFontLeft(Advance(r))
      [] r.s.tok = "T_bold" -> Store(Once(r, "sawBold"), <<"bold">>, TRUE)
      [] r.s.tok = "T_italic" -> Store(Once(r, "sawItalic"), <<"italic">>, TRUE)
      [] OTHER -> [r EXCEPT !.s = Unexpected(@, "bold|italic")]

\* every loop is modelled in the shape for( ; tok != T_RIGHT; tok = NextTok() ):
\* where the code reads the token in the loop test, the model reads it once
\* before the loop and once after each turn
RECURSIVE parseFontLoop(_)
parseFontLoop(r) ==
    IF ~Ok(r.s) \/ r.s.tok = "T_RIGHT" THEN r
    ELSE parseFontLoop(Advance(parseFontBody(r)))

\* the optional font name: any symbol that comes first is taken as the name
parseFontName(r) ==
    IF Ok(r.s) /\ IsSymbol(r.s.tok) THEN Advance(StoreText(r, <<"name">>)) ELSE r

parseFont(s, me) == Leave(parseFontLoop(parseFontName(Advance(Enter(s, me)))))

\* parseFont( &me->font )
parseFontIn(r, aPath) == Back(r, aPath, parseFont(r.s, GetPath(r.o, aPath)))

(***************************************************************************)
(* parsePinText: (signal|padname TEXT (font ...) (visible YES))            *)
(***************************************************************************)
parsePinTextCase(r) ==
    CASE r.s.tok = "T_font" -> parseFontIn(Once(r, "sawFont"), <<"font">>)
      [] r.s.tok = "T_visible" ->
           Right(parseBoolIn(Once(r, "sawVis"), <<"isVisible">>))
      [] OTHER -> Expect(r, "font")

parsePinTextBody(r) ==
    IF r.s.tok = "T_LEFT" THEN parsePinTextCase(Advance(r)) ELSE Expect(r, "T_LEFT")

RECURSIVE parsePinTextLoop(_)
parsePinTextLoop(r) ==
    IF ~Ok(r.s) \/ r.s.tok = "T_RIGHT" THEN r
    ELSE parsePinTextLoop(Advance(parsePinTextBody(r)))

parsePinText(s, me) ==
    LET r1 == StoreText(SymbolOrNumber(Enter(s, me)), <<"text">>)
    IN  Leave(parsePinTextLoop(Advance(r1)))

\* the pin text parsed with the flags of parsePin instead of its own
parsePinTextInShared(r, aPath) ==
    Back(r, aPath,
         Leave(parsePinTextLoop(Advance(
             StoreText(SymbolOrNumber([r EXCEPT !.o = GetPath(r.o, aPath)]), <<"text">>)))))

\* parsePinText( &me->signal ), parsePinText( &me->padname )
parsePinTextIn(r, aPath) == Back(r, aPath, parsePinText(r.s, GetPath(r.o, aPath)))

(***************************************************************************)
(* parsePin: (pin TYPE SHAPE (at X Y [ANGLE]) (length LENGTH)              *)
(*                (signal ...) (padname ...) (visible YES))                *)
(***************************************************************************)
PinTypes ==
    {"T_input", "T_output", "T_bidirectional", "T_tristate", "T_passive",
     "T_unspecified", "T_power_in", "T_power_out", "T_open_collector",
     "T_open_emitter", "T_unconnected"}

PinShapes ==
    {"T_none", "T_line", "T_inverted", "T_clock", "T_inverted_clk", "T_input_low",
     "T_clock_low", "T_falling_edge", "T_non_logic"}

parsePinCase(r) ==
    CASE r.s.tok = "T_at" -> parseAtIn(Once(r, "sawAt"))
      [] r.s.tok = "T_length" ->
           Right(NumberInto(Once(r, "sawLen"), "length", <<"length">>))
      [] r.s.tok = "T_signal" -> parsePinTextIn(Once(r, "sawSignal"), <<"signal">>)
      [] r.s.tok = "T_padname" -> parsePinTextIn(Once(r, "sawPadName"), <<"padname">>)
      [] r.s.tok = "T_visible" ->
           Right(parseBoolIn(Once(r, "sawVis"), <<"isVisible">>))
      [] OTHER -> Unexpect(r)

parsePinBody(r) ==
    CASE r.s.tok = "T_LEFT" -> parsePinCase(Advance(r))
      [] r.s.tok \in PinTypes -> StoreTok(Once(r, "sawType"), <<"connectionType">>)
      [] r.s.tok \in PinShapes -> StoreTok(Once(r, "sawShape"), <<"shape">>)
      [] OTHER -> Unexpect(r)

RECURSIVE parsePinLoop(_)
parsePinLoop(r) ==
    IF ~Ok(r.s) \/ r.s.tok = "T_RIGHT" THEN r
    ELSE parsePinLoop(Advance(parsePinBody(r)))

parsePin(s, me) == Leave(parsePinLoop(Advance(Enter(s, me))))

(***************************************************************************)
(* parseTextEffects: (effects [PROPERTY] (at X Y [ANGLE]) (font ...)       *)
(*                            (visible YES))                               *)
(***************************************************************************)
\* Duplicate( sawVis ) passes the flag, which is true here, as the token
DuplicateOfFlag == "token 1"

parseTextEffectsCase(r) ==
    CASE r.s.tok = "T_at" -> parseAtIn(Once(r, "sawAt"))
      [] r.s.tok = "T_font" -> parseFontIn(Once(r, "sawFont"), <<"font">>)
      [] r.s.tok = "T_visible" ->
           Right(parseBoolIn(OnceAs(r, "sawVis", DuplicateOfFlag), <<"isVisible">>))
      [] OTHER -> Expect(r, "at|font|visible")

parseTextEffectsBody(r) == parseTextEffectsCase(Advance(ExpectTok(r, "T_LEFT")))

RECURSIVE parseTextEffectsLoop(_)
parseTextEffectsLoop(r) ==
    IF ~Ok(r.s) \/ r.s.tok = "T_RIGHT" THEN r
    ELSE parseTextEffectsLoop(Advance(parseTextEffectsBody(r)))

\* the optional property name: any symbol that comes first is taken as it
parseTextEffectsName(r) ==
    IF Ok(r.s) /\ IsSymbol(r.s.tok) THEN Advance(StoreText(r, <<"propName">>)) ELSE r

parseTextEffects(s, me) ==
    Leave(parseTextEffectsLoop(parseTextEffectsName(Advance(Enter(s, me)))))

\* parseTextEffects( &me->path )
parseTextEffectsIn(r, aPath) ==
    Back(r, aPath, parseTextEffects(r.s, GetPath(r.o, aPath)))

(***************************************************************************)
(* Clauses that the graphics parsers repeat verbatim.  r.s.tok is the      *)
(* clause keyword.                                                         *)
(***************************************************************************)
FillTypes == {"T_none", "T_filled", "T_transparent"}

\* case T_line_width
parseLineWidth(r) ==
    Right(StoreNumber(Number(Once(r, "sawWidth"), "line_width"), <<"lineWidth">>))

\* parseFillType with the enumeration left open: any symbol is stored
parseFillTypeOpen(r) == StoreTok(r, <<"fillType">>)

\* the inner switch of case T_fill
parseFillType(r) ==
    IF r.s.tok \in FillTypes THEN StoreTok(r, <<"fillType">>)
    ELSE Expect(r, "none|filled|transparent")

\* case T_fill
parseFill(r) == Right(parseFillType(Symbol(Once(r, "sawFill"))))

\* case T_start, T_end, T_center, T_pos: two coordinates into the point aField
parsePoint(r, aField, aSaw, aLabelX, aLabelY) ==
    LET r1 == NumberInto(Once(r, aSaw), aLabelX, <<aField, "x">>)
        r2 == NumberInto(r1, aLabelY, <<aField, "y">>)
    IN  Right(r2)

\* case T_radius
parseRadius(r) == Right(NumberInto(Once(r, "sawRadius"), "radius", <<"radius">>))

(***************************************************************************)
(* parsePolyLine: (polyline|line (pts (xy X Y) ...) (line_width WIDTH)     *)
(*                               (fill FILL_TYPE))                         *)
(***************************************************************************)
\* ++count, which a turn that throws does not reach
parsePtsCount(r) == [r EXCEPT !.count = IF Ok(r.s) THEN @ + 1 ELSE @]

\* me->pts.push_back( POINT() ) and the two coordinates of pts.back()
parsePtsPoint(r) ==
    LET n == Len(r.o.pts) + 1
        r1 == Store(r, <<"pts">>, Append(r.o.pts, POINT0))
        r2 == NumberInto(r1, "x", <<"pts", n, "x">>)
        r3 == NumberInto(r2, "y", <<"pts", n, "y">>)
    IN  parsePtsCount(Right(r3))

\* one turn of the for loop of case T_pts; r.s.tok is not T_RIGHT
parsePtsBody(r) == parsePtsPoint(ExpectTok(Symbol(ExpectTok(r, "T_LEFT")), "T_xy"))

RECURSIVE parsePtsLoop(_)
parsePtsLoop(r) ==
    IF ~Ok(r.s) \/ r.s.tok = "T_RIGHT" THEN r
    ELSE parsePtsLoop(Advance(parsePtsBody(r)))

\* if( count ) Duplicate( tok )
parsePtsOnce(r) == IF r.count # 0 THEN [r EXCEPT !.s = Duplicate(@, @.tok)] ELSE r

\* parsePtsEnough with the least number of points taken to be 1
parsePtsEnoughOne(r) == IF r.count < 1 THEN Expect(r, ">= 2 pts") ELSE r

\* if( count < 2 ) Expecting( ">= 2 pts" )
parsePtsEnough(r) == IF r.count < 2 THEN Expect(r, ">= 2 pts") ELSE r

\* case T_pts
parsePts(r) == parsePtsEnough(parsePtsLoop(Advance(parsePtsOnce(r))))

parsePolyLineCase(r) ==
    CASE r.s.tok = "T_line_width" -> parseLineWidth(r)
      [] r.s.tok = "T_pts" -> parsePts(r)
      [] r.s.tok = "T_fill" -> parseFill(r)
      [] OTHER -> Expect(r, "pts|line_width|fill")

parsePolyLineBody(r) == parsePolyLineCase(Advance(ExpectTok(r, "T_LEFT")))

RECURSIVE parsePolyLineLoop(_)
parsePolyLineLoop(r) ==
    IF ~Ok(r.s) \/ r.s.tok = "T_RIGHT" THEN r
    ELSE parsePolyLineLoop(Advance(parsePolyLineBody(r)))

parsePolyLine(s, me) == Leave(parsePolyLineLoop(Advance(Enter(s, me))))

parseBezier(s, me) == parsePolyLine(s, me)

(***************************************************************************)
(* parseRectangle: (rectangle (start X Y) (end X Y) (line_width WIDTH)     *)
(*                            (fill FILL_TYPE))                            *)
(***************************************************************************)
parseRectangleCase(r) ==
    CASE r.s.tok = "T_line_width" -> parseLineWidth(r)
      [] r.s.tok = "T_fill" -> parseFill(r)
      [] r.s.tok = "T_start" -> parsePoint(r, "start", "sawStart", "x", "y")
      [] r.s.tok = "T_end" -> parsePoint(r, "end", "sawEnd", "x", "y")
      [] OTHER -> Expect(r, "start|end|line_width|fill")

parseRectangleBody(r) == parseRectangleCase(Advance(ExpectTok(r, "T_LEFT")))

RECURSIVE parseRectangleLoop(_)
parseRectangleLoop(r) ==
    IF ~Ok(r.s) \/ r.s.tok = "T_RIGHT" THEN r
    ELSE parseRectangleLoop(Advance(parseRectangleBody(r)))

parseRectangle(s, me) == Leave(parseRectangleLoop(Advance(Enter(s, me))))

(***************************************************************************)
(* parseCircle: (circle (center X Y) (radius LENGTH) (line_width WIDTH)    *)
(*                      (fill FILL_TYPE))                                  *)
(***************************************************************************)
parseCircleCase(r) ==
    CASE r.s.tok = "T_line_width" -> parseLineWidth(r)
      [] r.s.tok = "T_fill" -> parseFill(r)
      [] r.s.tok = "T_center" ->
           parsePoint(r, "center", "sawCenter", "center x", "center y")
      [] r.s.tok = "T_radius" -> parseRadius(r)
      [] OTHER -> Expect(r, "center|radius|line_width|fill")

parseCircleBody(r) == parseCircleCase(Advance(ExpectTok(r, "T_LEFT")))

RECURSIVE parseCircleLoop(_)
parseCircleLoop(r) ==
    IF ~Ok(r.s) \/ r.s.tok = "T_RIGHT" THEN r
    ELSE parseCircleLoop(Advance(parseCircleBody(r)))

parseCircle(s, me) == Leave(parseCircleLoop(Advance(Enter(s, me))))

(***************************************************************************)
(* parseArc: (arc (pos X Y) (radius RADIUS) (start X Y) (end X Y)          *)
(*                (line_width WIDTH) (fill FILL_TYPE))                     *)
(***************************************************************************)
parseArcCase(r) ==
    CASE r.s.tok = "T_line_width" -> parseLineWidth(r)
      [] r.s.tok = "T_fill" -> parseFill(r)
      [] r.s.tok = "T_pos" -> parsePoint(r, "pos", "sawPos", "pos x", "pos y")
      [] r.s.tok = "T_radius" -> parseRadius(r)
      [] r.s.tok = "T_start" ->
           parsePoint(r, "start", "sawStart", "start x", "start y")
      [] r.s.tok = "T_end" -> parsePoint(r, "end", "sawEnd", "end x", "end y")
      [] OTHER -> Expect(r, "center|radius|line_width|fill")

parseArcBody(r) == parseArcCase(Advance(ExpectTok(r, "T_LEFT")))

RECURSIVE parseArcLoop(_)
parseArcLoop(r) ==
    IF ~Ok(r.s) \/ r.s.tok = "T_RIGHT" THEN r
    ELSE parseArcLoop(Advance(parseArcBody(r)))

parseArc(s, me) == Leave(parseArcLoop(Advance(Enter(s, me))))

(***************************************************************************)
(* parseText: (text "text" (at X Y [ANGLE]) (justify H V) (font ...)       *)
(*                  (visible YES) (fill FILL_TYPE))                        *)
(***************************************************************************)
\* the switch on the horizontal justification
parseJustifyH(r) ==
    IF r.s.tok \in {"T_center", "T_right", "T_left"} THEN StoreTok(r, <<"hjustify">>)
    ELSE Expect(r, "center|right|left")

\* the switch on the vertical justification
parseJustifyV(r) ==
    IF r.s.tok \in {"T_center", "T_top", "T_bottom"} THEN StoreTok(r, <<"vjustify">>)
    ELSE Expect(r, "center|top|bottom")

\* case T_justify
parseJustify(r) ==
    LET r1 == parseJustifyH(Symbol(Once(r, "sawJust")))
    IN  Right(parseJustifyV(Symbol(r1)))

parseTextCase(r) ==
    CASE r.s.tok = "T_at" -> parseAtIn(Once(r, "sawAt"))
      [] r.s.tok = "T_fill" -> parseFill(r)
      [] r.s.tok = "T_justify" -> parseJustify(r)
      [] r.s.tok = "T_visible" ->
           Right(parseBoolIn(Once(r, "sawVis"), <<"isVisible">>))
      [] r.s.tok = "T_font" -> parseFontIn(Once(r, "sawFont"), <<"font">>)
      [] OTHER -> Expect(r, "at|justify|font|visible|fill")

parseTextBody(r) == parseTextCase(Advance(ExpectTok(r, "T_LEFT")))

RECURSIVE parseTextLoop(_)
parseTextLoop(r) ==
    IF ~Ok(r.s) \/ r.s.tok = "T_RIGHT" THEN r
    ELSE parseTextLoop(Advance(parseTextBody(r)))

parseText(s, me) ==
    LET r1 == StoreText(SymbolOrNumber(Enter(s, me)), <<"text">>)
    IN  Leave(parseTextLoop(Advance(r1)))

(***************************************************************************)
(* The library table and the PART operations the parser calls.             *)
(***************************************************************************)
\* the PARTs the library table holds
PartNames == {"P1", "P2", "P3", "P4", "P5", "P6", "P7"}

\* texts that LPID::Parse rejects
BadLPIDs == {"bad:/lpid"}

\* LPID::Parse: -1 on success, else the offset of the offending character
LPIDParse(aText) == IF aText \in BadLPIDs THEN 0 ELSE -1

\* LIB_TABLE::LookupPart finds the PART of that name or throws
LookupFails(aLPID) == aLPID \notin PartNames

\* PART::inherit: me takes over the fields of the base
inherit(me, aBase) ==
    [me EXCEPT !.anchor = aBase.anchor, !.reference = aBase.reference,
               !.value = aBase.value, !.footprint = aBase.footprint,
               !.datasheet = aBase.datasheet, !.model = aBase.model,
               !.properties = aBase.properties, !.graphics = aBase.graphics,
               !.pins = aBase.pins, !.contains = aBase.contains]

(***************************************************************************)
(* parseExtends.  aLib is the library table, aMe the name of the PART      *)
(* under construction; r.o is [part |-> *me, contains |-> the parser's     *)
(* clause-seen bits].                                                      *)
(***************************************************************************)
\* if( contains & PB(X) ) Duplicate( tok )
Unique(r, aBit) ==
    IF aBit \in r.o.contains THEN [r EXCEPT !.s = Duplicate(@, @.tok)] ELSE r

\* contains |= PB(X)
Mark(r, aBit) == [r EXCEPT !.o.contains = When(r.s, @ \cup {aBit}, @)]

\* me->extends is parsed from the text; an invalid one throws
parseExtendsLPID(r) ==
    IF LPIDParse(r.s.text) = -1 THEN StoreText(r, <<"part", "extends">>)
    ELSE [Store(r, <<"part", "extends">>, "")
             EXCEPT !.s = Throw(@, "InvalidLPID", "invalid extends LPID")]

\* base = libs->LookupPart( *me->extends, me->Owner() )
parseExtendsLookup(r) ==
    IF Ok(r.s) /\ LookupFails(r.s.text)
    THEN [r EXCEPT !.s = Throw(@, "LookupError", @.text)]
    ELSE r

\* the for loop with extendsDepth <= MAX_INHERITANCE_NESTING as its test
RECURSIVE ancestorWalkOneMore(_, _, _, _)
ancestorWalkOneMore(aLib, ancestor, aMe, extendsDepth) ==
    IF ancestor # NULL /\ extendsDepth <= MAX_INHERITANCE_NESTING
    THEN IF ancestor = aMe
         THEN [extendsDepth |-> extendsDepth, self |-> TRUE]
         ELSE ancestorWalkOneMore(aLib, aLib[ancestor].base, aMe, extendsDepth + 1)
    ELSE [extendsDepth |-> extendsDepth, self |-> FALSE]

\* the for loop with the self test made on the resolved base only
RECURSIVE ancestorWalkDirectOnly(_, _, _, _)
ancestorWalkDirectOnly(aLib, ancestor, aMe, extendsDepth) ==
    IF ancestor # NULL /\ extendsDepth < MAX_INHERITANCE_NESTING
    THEN IF ancestor = aMe /\ extendsDepth = 0
         THEN [extendsDepth |-> extendsDepth, self |-> TRUE]
         ELSE ancestorWalkDirectOnly(aLib, aLib[ancestor].base, aMe, extendsDepth + 1)
    ELSE [extendsDepth |-> extendsDepth, self |-> FALSE]

\* the for loop: the depth reached, and whether it met me on the way
RECURSIVE ancestorWalk(_, _, _, _)
ancestorWalk(aLib, ancestor, aMe, extendsDepth) ==
    IF ancestor # NULL /\ extendsDepth < MAX_INHERITANCE_NESTING
    THEN IF ancestor = aMe
         THEN [extendsDepth |-> extendsDepth, self |-> TRUE]
         ELSE ancestorWalk(aLib, aLib[ancestor].base, aMe, extendsDepth + 1)
    ELSE [extendsDepth |-> extendsDepth, self |-> FALSE]

\* parseExtendsInherit without the assignment me->base = base
parseExtendsBaseNotRecorded(aLib, r, base, w) ==
    IF w.self
    THEN [r EXCEPT !.s = Throw(@, "SelfReference",
                               "'extends' may not have self as any ancestor")]
    ELSE IF w.extendsDepth = MAX_INHERITANCE_NESTING
    THEN [r EXCEPT !.s = Throw(@, "DepthExceeded", "max allowed extends depth exceeded")]
    ELSE [r EXCEPT !.o.part = inherit(@, aLib[base]),
                   !.o.contains = @ \cup {"EXTENDS"}]

\* what follows the walk w from base: its two throws, then the three final
\* assignments
parseExtendsInherit(aLib, r, base, w) ==
    IF w.self
    THEN [r EXCEPT !.s = Throw(@, "SelfReference",
                               "'extends' may not have self as any ancestor")]
    ELSE IF w.extendsDepth = MAX_INHERITANCE_NESTING
    THEN [r EXCEPT !.s = Throw(@, "DepthExceeded", "max allowed extends depth exceeded")]
    ELSE [r EXCEPT !.o.part = [inherit(@, aLib[base]) EXCEPT !.base = base],
                   !.o.contains = @ \cup {"EXTENDS"}]

\* the walk is made from the base that the lookup returned
parseExtendsBase(aLib, aMe, r) ==
    IF ~Ok(r.s) THEN r
    ELSE parseExtendsInherit(aLib, r, r.s.text, ancestorWalk(aLib, r.s.text, aMe, 0))

parseExtends(aLib, aMe, r) ==
    LET r1 == IF "EXTENDS" \in r.o.contains
              THEN [r EXCEPT !.s = Duplicate(@, "T_extends")]
              ELSE r
    IN  parseExtendsBase(aLib, aMe, parseExtendsLookup(parseExtendsLPID(SymbolOrNumber(r1))))

(***************************************************************************)
(* Parse.  r.o is [part |-> *me, contains |-> the parser's clause-seen     *)
(* bits]; r.s.tok is the clause keyword when a case is entered.            *)
(***************************************************************************)
\* the switch on the token that follows a text: ( effects ... ) or )
parseEffectsCase(r, aPath) ==
    CASE r.s.tok = "T_LEFT" ->
           Right(parseTextEffectsIn(ExpectTok(Advance(r), "T_effects"), aPath))
      [] r.s.tok # "T_RIGHT" -> Expect(r, ") | effects")
      [] OTHER -> r

\* the tail shared by the text field and property cases: [(effects ...)] )
parseOptionalEffects(r, aPath) == parseEffectsCase(Advance(r), aPath)

\* case T_reference, T_value, T_footprint, T_datasheet, T_model: the field
\* aField is guarded by the clause-seen bit aBit
parseField(r, aField, aBit) ==
    LET r1 == SymbolOrNumber(Mark(Unique(r, aBit), aBit))
    IN  parseOptionalEffects(StoreText(r1, <<"part", aField, "text">>),
                             <<"part", aField, "effects">>)

\* case T_anchor
parseAnchor(r) ==
    LET r1 == NumberInto(Unique(r, "ANCHOR"), "anchor x", <<"part", "anchor", "x">>)
        r2 == NumberInto(r1, "anchor y", <<"part", "anchor", "y">>)
    IN  Mark(r2, "ANCHOR")

\* a property whose name the part already has is a duplicate
RejectRepeat(r, n) ==
    IF \E i \in 1..(n - 1) : r.o.part.properties[i].name = r.o.part.properties[n].name
    THEN [r EXCEPT !.s = Duplicate(@, "T_property")]
    ELSE r

\* case T_property with the uniqueness check that the code leaves out
parsePropertyUnique(r) ==
    LET n == Len(r.o.part.properties) + 1
        r0 == Store(r, <<"part", "properties">>, Append(r.o.part.properties, PROPERTY0))
        r1 == StoreText(SymbolOrNumber(r0), <<"part", "properties", n, "name">>)
        r2 == StoreText(SymbolOrNumber(RejectRepeat(r1, n)), <<"part", "properties", n, "text">>)
    IN  parseOptionalEffects(r2, <<"part", "properties", n, "effects">>)

\* case T_property
parseProperty(r) ==
    LET n == Len(r.o.part.properties) + 1
        r0 == Store(r, <<"part", "properties">>, Append(r.o.part.properties, PROPERTY0))
        r1 == StoreText(SymbolOrNumber(r0), <<"part", "properties", n, "name">>)
        r2 == StoreText(SymbolOrNumber(r1), <<"part", "properties", n, "text">>)
    IN  parseOptionalEffects(r2, <<"part", "properties", n, "effects">>)

\* the new node is appended only once its parse function has returned
parseNewAfter(r, aList, aRes) ==
    [r EXCEPT !.s = aRes.s, !.o.part[aList] = When(aRes.s, Append(@, aRes.o), @)]

\* the new node is appended to the list aList of me, and is as its parse
\* function left it
parseNew(r, aList, aRes) == [r EXCEPT !.s = aRes.s, !.o.part[aList] = Append(@, aRes.o)]

\* the graphics cases
parseGraphic(r) ==
    CASE r.s.tok \in {"T_line", "T_polyline"} ->
           parseNew(r, "graphics", parsePolyLine(r.s, POLY_LINE0))
      [] r.s.tok = "T_rectangle" -> parseNew(r, "graphics", parseRectangle(r.s, RECTANGLE0))
      [] r.s.tok = "T_circle" -> parseNew(r, "graphics", parseCircle(r.s, CIRCLE0))
      [] r.s.tok = "T_arc" -> parseNew(r, "graphics", parseArc(r.s, ARC0))
      [] r.s.tok = "T_bezier" -> parseNew(r, "graphics", parseBezier(r.s, BEZIER0))
      [] r.s.tok = "T_text" -> parseNew(r, "graphics", parseText(r.s, GR_TEXT0))

\* case T_pin
parsePinClause(r) == parseNew(r, "pins", parsePin(r.s, PIN0))

\* the keywords that the text of the default case names, in its order
TopLevelNames ==
    << "anchor", "value", "footprint", "model", "keywords", "alternates", "property",
       "property_del", "pin", "pin_merge", "pin_swap", "pin_renum", "pin_rename",
       "route_pin_swap", "polyline", "line", "rectangle", "circle", "arc", "bezier",
       "text" >>

\* aNames joined with |
RECURSIVE Alternatives(_)
Alternatives(aNames) ==
    IF Len(aNames) = 1 THEN aNames[1]
    ELSE aNames[1] \o "|" \o Alternatives(Tail(aNames))

\* the text of the default case, without its line breaks and indentation
TopLevelExpecting == Alternatives(TopLevelNames)

GraphicsKeywords ==
    {"T_line", "T_polyline", "T_rectangle", "T_circle", "T_arc", "T_bezier", "T_text"}

\* the switch of Parse
ParseCase(r) ==
    IF ~Ok(r.s) THEN r
    ELSE CASE r.s.tok = "T_anchor" -> parseAnchor(r)
           [] r.s.tok \in GraphicsKeywords -> parseGraphic(r)
           [] r.s.tok = "T_reference" -> parseField(r, "reference", "REFERENCE")
           [] r.s.tok = "T_value" -> parseField(r, "value", "VALUE")
           [] r.s.tok = "T_footprint" -> parseField(r, "footprint", "FOOTPRINT")
           [] r.s.tok = "T_datasheet" -> parseField(r, "datasheet", "MODEL")
           [] r.s.tok = "T_model" -> parseField(r, "model", "MODEL")
           [] r.s.tok = "T_property" -> parseProperty(r)
           [] r.s.tok = "T_pin" -> parsePinClause(r)
           [] OTHER -> Expect(r, TopLevelExpecting)

\* if( tok==T_EOF ) Unexpected( T_EOF )
ParseEOF(r) == IF r.s.tok = "T_EOF" THEN [r EXCEPT !.s = Unexpected(@, "T_EOF")] ELSE r

\* if( tok == T_LEFT ) tok = NextTok()
ParseLeft(r) == IF r.s.tok = "T_LEFT" THEN Advance(r) ELSE r

\* one turn of the for loop of Parse; r.s.tok is not T_RIGHT
ParseBody(r) == ParseCase(ParseLeft(ParseEOF(r)))

RECURSIVE ParseLoop(_)
ParseLoop(r) ==
    IF ~Ok(r.s) \/ r.s.tok = "T_RIGHT" THEN r
    ELSE ParseLoop(Advance(ParseBody(r)))

\* extends must be the first thing after the name hint, if present at all
ParseExtends(aLib, aMe, r) ==
    IF Ok(r.s) /\ r.s.tok = "T_extends" THEN Advance(parseExtends(aLib, aMe, r)) ELSE r

\* contains |= PB(PARSED); me->contains |= contains
ParseEnd(r) ==
    IF Ok(r.s)
    THEN [r EXCEPT !.o.contains = @ \cup {"PARSED"},
                   !.o.part.contains = @ \cup r.o.contains \cup {"PARSED"}]
    ELSE r

\* Parse( me, aTable ): aLib is the table, aMe the name of me in it,
\* aContains the parser's clause-seen bits on entry, aTokens what the lexer
\* will serve
ParseResult(aLib, aContains, aMe, aTokens) ==
    LET r1 == Res(NeedLEFT(Lexer(aTokens)), [part |-> PART0, contains |-> aContains])
        r2 == SymbolOrNumber(ExpectTok(Advance(r1), "T_part"))
    IN  ParseEnd(ParseLoop(ParseExtends(aLib, aMe, Advance(r2))))

(***************************************************************************)
(* The unit converter as a program of its own: a numeral is chosen, then   *)
(* internal() is applied to it.                                            *)
(***************************************************************************)
\* numerals range over -MaxNumeral .. MaxNumeral hundred-thousandths
MaxNumeral == 120

\* plus the numerals of the examples
Numerals == (-MaxNumeral .. MaxNumeral) \cup {FixedOne, FixedOne \div 2, -225000}

Convert ==
    /\ converted = << >>
    /\ converted' = << internal(numeral) >>
    /\ UNCHANGED << parts, contains, input, pos, meName, err, what, calls, numeral >>

InitParser ==
    /\ parts = [n \in PartNames |-> PART0]
    /\ contains = {}
    /\ input = << >>
    /\ pos = 0
    /\ meName = NULL
    /\ err = NoErr
    /\ what = ""
    /\ calls = 0

InitConv == InitParser /\ numeral \in Numerals /\ converted = << >>

NextConv == Convert

SpecConv == InitConv /\ [][NextConv]_vars

(***************************************************************************)
(* Token streams.                                                          *)
(***************************************************************************)
RECURSIVE Concat(_)
Concat(aSeqs) == IF aSeqs = << >> THEN << >> ELSE Head(aSeqs) \o Concat(Tail(aSeqs))

\* all sequences of at most aMax elements of aSet
SeqsUpTo(aSet, aMax) == UNION {[1..n -> aSet] : n \in 0..aMax}

\* ( part NAME_HINT aExtends aBody )
PartForm(aExtends, aBody) == << LP, K("part"), Sym("hint") >> \o aExtends \o aBody \o << RP >>

Clause(aTokens) == << LP >> \o aTokens \o << RP >>

PinExample ==
    Clause(<< K("pin"), K("input"), K("line") >>
           \o Clause(<< K("at"), Whole(0), Whole(0) >>)
           \o Clause(<< K("length"), Whole(100) >>))

\* the part level clauses the dispatcher is driven with
TopClauses ==
    { Clause(<< K("anchor"), Whole(0), Whole(0) >>),
      Clause(<< K("anchor"), Whole(1), Num(-225000) >>),
      Clause(<< K("reference"), Sym("R") >>),
      Clause(<< K("reference"), Sym("U") >>),
      Clause(<< K("value"), Sym("10k") >>),
      Clause(<< K("footprint"), Sym("0805") >>),
      Clause(<< K("datasheet"), Sym("r.pdf") >>),
      Clause(<< K("model"), Sym("r.mod") >>),
      Clause(<< K("property"), Sym("tol"), Sym("1%") >>),
      PinExample }

\* number of clauses in a part body
MaxClauses == 2

Bodies(aClauses) == {Concat(b) : b \in SeqsUpTo(aClauses, MaxClauses)}

\* the end-to-end example, a part with three clauses
EndToEnd ==
    PartForm(<< >>, Clause(<< K("anchor"), Whole(0), Whole(0) >>)
                    \o Clause(<< K("reference"), Sym("R") >>)
                    \o PinExample)

Streams == {PartForm(<< >>, b) : b \in Bodies(TopClauses)} \cup {EndToEnd}

(***************************************************************************)
(* The parser as a program: a SWEET_PARSER is constructed, and Parse is    *)
(* called on it with a PART of the library table.                          *)
(***************************************************************************)
\* Parse calls in one run
MaxCalls == 2

\* SWEET_PARSER::SWEET_PARSER: a new parser over a new text; nothing is seen
\* yet, nothing is consumed and no Parse call has been made on it
NewParser ==
    /\ contains' = {}
    /\ input' = << >>
    /\ pos' = 0
    /\ meName' = NULL
    /\ err' = NoErr
    /\ what' = ""
    /\ UNCHANGED << parts, calls, numeral, converted >>

\* SWEET_PARSER::Parse( me, aTable ) with the lexer serving aTokens
\* what a call of Parse leaves behind: r is the parser and *me as the call
\* ended, by return or by exception
ParseEnds(aMe, aTokens, r) ==
    /\ parts' = [parts EXCEPT ![aMe] = r.o.part]
    /\ contains' = r.o.contains
    /\ input' = aTokens
    /\ pos' = r.s.pos
    /\ meName' = aMe
    /\ err' = r.s.err
    /\ what' = r.s.what
    /\ UNCHANGED << numeral, converted >>

Parse(aMe, aTokens) == ParseEnds(aMe, aTokens, ParseResult(parts, contains, aMe, aTokens))

Counted == calls < MaxCalls /\ calls' = calls + 1

ParsePart == Counted /\ \E t \in Streams : Parse("P2", t)

Init == InitParser /\ numeral = 0 /\ converted = << >>

Next == NewParser \/ ParsePart

Spec == Init /\ [][Next]_vars

(***************************************************************************)
(* Inheritance: P1 is parsed as a base, P2 as a part that may extend it.   *)
(***************************************************************************)
\* what may stand between the name hint and the body
ExtendsForms ==
    { << >>,
      << K("extends"), Sym("P1") >>,
      Clause(<< K("extends"), Sym("P1") >>),
      << K("extends"), Sym("P1"), K("extends"), Sym("P1") >>,
      << K("extends"), Sym("P2") >>,
      << K("extends"), Sym("nowhere") >>,
      << K("extends"), Sym("bad:/lpid") >> }

BaseBodies ==
    { << >>,
      Clause(<< K("reference"), Sym("R1") >>),
      Concat(<< Clause(<< K("reference"), Sym("R1") >>),
                Clause(<< K("value"), Sym("1k") >>),
                Clause(<< K("footprint"), Sym("0603") >>),
                Clause(<< K("datasheet"), Sym("a.pdf") >>) >>),
      Concat(<< Clause(<< K("reference"), Sym("R1") >>),
                Clause(<< K("model"), Sym("a.mod") >>) >>) }

BaseStreams == {PartForm(<< >>, b) : b \in BaseBodies}

DerivedClauses ==
    { Clause(<< K("anchor"), Whole(0), Whole(0) >>),
      Clause(<< K("reference"), Sym("U") >>),
      Clause(<< K("model"), Sym("u.mod") >>) }

DerivedStreams == {PartForm(x, b) : x \in ExtendsForms, b \in Bodies(DerivedClauses)}

ParseBase == Counted /\ \E t \in BaseStreams : Parse("P1", t)

ParseDerived == Counted /\ \E t \in DerivedStreams : Parse("P2", t)

NextInherit == NewParser \/ ParseBase \/ ParseDerived

SpecInherit == Init /\ [][NextInherit]_vars

(***************************************************************************)
(* Chains of bases: every part of the table is parsed from a form that     *)
(* extends the next part of the table (the last one extends the first),    *)
(* and P1, P3 and P6 also from a form that extends the first part.         *)
(***************************************************************************)
Successor(aName) ==
    CASE aName = "P1" -> "P2" [] aName = "P2" -> "P3" [] aName = "P3" -> "P4"
      [] aName = "P4" -> "P5" [] aName = "P5" -> "P6" [] aName = "P6" -> "P7"
      [] OTHER -> "P1"

ExtendsStream(aBase) == PartForm(<< K("extends"), Sym(aBase) >>, << >>)

ChainBases(aName) == {Successor(aName)} \cup (IF aName \in {"P1", "P3", "P6"} THEN {"P1"} ELSE {})

ParseLink ==
    \E n \in PartNames : \E b \in ChainBases(n) :
        Parse(n, ExtendsStream(b)) /\ UNCHANGED calls

NextChain == NewParser \/ ParseLink

SpecChain == Init /\ [][NextChain]_vars

(***************************************************************************)
(* What the claims speak of, in terms of the last Parse call.              *)
(***************************************************************************)
Called == meName # NULL
Returned == Called /\ err = NoErr
Me == parts[meName]

\* number of open parentheses after the first n tokens of aTokens
RECURSIVE Nesting(_, _)
Nesting(aTokens, n) ==
    IF n = 0 THEN 0
    ELSE Nesting(aTokens, n - 1)
         + (CASE aTokens[n].tok = "T_LEFT" -> 1 [] aTokens[n].tok = "T_RIGHT" -> -1
              [] OTHER -> 0)

\* positions of the keywords of the clauses of the part body
ClauseKeywords(aTokens) ==
    {i \in 5..Len(aTokens) : aTokens[i - 1].tok = "T_LEFT" /\ Nesting(aTokens, i - 2) = 1}

\* positions of the part level clauses with keyword aTok
ClausesOf(aTokens, aTok) == {i \in ClauseKeywords(aTokens) : aTokens[i].tok = aTok}

\* the form has a bare extends right after the name hint
BareExtends == Called /\ Len(input) >= 5 /\ input[4].tok = "T_extends"

\* the form has a parenthesized extends right after the name hint
ParenExtends ==
    Called /\ Len(input) >= 6 /\ input[4].tok = "T_LEFT" /\ input[5].tok = "T_extends"

\* parseExtends threw
ResolverError ==
    \/ err \in {"InvalidLPID", "LookupError", "SelfReference", "DepthExceeded"}
    \/ err = "Duplicate" /\ what = "T_extends"
    \/ err = "Expecting" /\ what = "symbol|number" /\ pos = 5

\* parseExtends got as far as a resolved base
BaseResolved ==
    /\ BareExtends
    /\ ~(err = "Duplicate" /\ what = "T_extends")
    /\ ~(err = "Expecting" /\ pos = 5)
    /\ err \notin {"InvalidLPID", "LookupError"}

\* the parts met by following base links from aName, at most n of them
RECURSIVE ChainFrom(_, _)
ChainFrom(aName, n) ==
    IF aName = NULL \/ n = 0 THEN << >>
    ELSE << aName >> \o ChainFrom(parts[aName].base, n - 1)

Range(aSeq) == {aSeq[i] : i \in 1..Len(aSeq)}

(***************************************************************************)
(* C1.  The end-to-end example parses with every clause applied: anchor    *)
(* (0,0), reference "R", one pin of type input, shape line, at (0,0), of   *)
(* length 100 * 10000; and whenever Parse returns, the clauses that follow *)
(* an anchor clause in the part body were consumed too.                    *)
(***************************************************************************)
C1_EndToEndApplied ==
    /\ (Called /\ input = EndToEnd) =>
          /\ err = NoErr
          /\ Me.anchor = [x |-> 0, y |-> 0]
          /\ Me.reference.text = "R"
          /\ Len(Me.pins) = 1
          /\ Me.pins[1].connectionType = "T_input"
          /\ Me.pins[1].shape = "T_line"
          /\ Me.pins[1].pos = [x |-> 0, y |-> 0]
          /\ Me.pins[1].length = 100 * INTERNAL_PER_LOGICAL
    /\ Returned =>
          \A i \in ClausesOf(input, "T_anchor") : \A j \in ClauseKeywords(input) :
              i < j => j <= pos

(***************************************************************************)
(* C2.  As claimed: a parenthesized (extends IDENTIFIER) right after the   *)
(* name hint reaches the Inheritance Resolver, which records the           *)
(* identifier.                                                             *)
(***************************************************************************)
C2_ParenExtendsAccepted == ParenExtends => Me.extends = input[6].text

(***************************************************************************)
(* C2, amended.  A bare `extends IDENTIFIER' right after the name hint     *)
(* reaches the Inheritance Resolver; unless the resolver throws, the base  *)
(* is looked up and recorded, the fields the body does not set are those   *)
(* of the base, and the dispatcher goes on with the tokens that follow.    *)
(* The parenthesized form is rejected with the dispatcher's "expecting"    *)
(* error, before any lookup.                                               *)
(***************************************************************************)
C2_BareExtendsAccepted ==
    /\ BareExtends =>
          /\ \/ Me.extends # NULL
             \/ err = "Duplicate" /\ what = "T_extends" /\ pos = 4
             \/ err = "Expecting" /\ what = "symbol|number" /\ pos = 5
          /\ ~ResolverError =>
                /\ Me.extends = input[5].text
                /\ Me.base = input[5].text
                /\ "EXTENDS" \in contains
                /\ "REFERENCE" \notin contains => Me.reference = parts[Me.base].reference
                /\ "VALUE" \notin contains => Me.value = parts[Me.base].value
                /\ "FOOTPRINT" \notin contains => Me.footprint = parts[Me.base].footprint
                /\ "MODEL" \notin contains =>
                      /\ Me.datasheet = parts[Me.base].datasheet
                      /\ Me.model = parts[Me.base].model
                /\ pos >= 6
    /\ ParenExtends =>
          /\ err = "Expecting" /\ what = TopLevelExpecting /\ pos = 5
          /\ Me.extends = NULL /\ Me.base = NULL

\* a bare extends of P1, whose reference is "R1", followed by a clause, returned
C2_BareExtendsWitness ==
    /\ BareExtends /\ err = NoErr
    /\ Me.base = "P1" /\ Me.reference.text = "R1"
    /\ Len(input) > 6 /\ pos = Len(input)

(***************************************************************************)
(* C3.  After a successful Parse of a part that extends a base whose       *)
(* reference text is "R1": without a reference clause of its own the       *)
(* part's reference text is "R1"; with one reference clause of its own it  *)
(* is the declared text.  Likewise for value, footprint, datasheet, model. *)
(***************************************************************************)
FieldFlattened(aField, aTok) ==
    LET own == ClausesOf(input, aTok)
    IN  /\ own = {} => Me[aField].text = parts[Me.base][aField].text
        /\ Cardinality(own) = 1 => \A i \in own : Me[aField].text = input[i + 1].text

C3_OverrideWins ==
    (Returned /\ BareExtends /\ Me.base # NULL /\ parts[Me.base].reference.text = "R1") =>
        /\ FieldFlattened("reference", "T_reference")
        /\ FieldFlattened("value", "T_value")
        /\ FieldFlattened("footprint", "T_footprint")
        /\ FieldFlattened("datasheet", "T_datasheet")
        /\ FieldFlattened("model", "T_model")

(***************************************************************************)
(* C4.  When the resolved base's chain does not contain the part under     *)
(* construction, parseExtends raises the depth-exceeded error exactly when *)
(* the chain, base included, does not end within 6 parts.                  *)
(***************************************************************************)
C4_DepthBound ==
    (BaseResolved /\ meName \notin Range(ChainFrom(input[5].text, MAX_INHERITANCE_NESTING))) =>
        (err = "DepthExceeded"
            <=> Len(ChainFrom(input[5].text, MAX_INHERITANCE_NESTING + 1))
                    > MAX_INHERITANCE_NESTING)

(***************************************************************************)
(* C5.  When the part under construction is the resolved base or one of    *)
(* the first 6 parts of the base's chain, parseExtends raises the          *)
(* self-reference error; nothing is inherited, no base is recorded and the *)
(* extends clause is not marked as seen.                                   *)
(***************************************************************************)
C5_SelfReferenceRejected ==
    (BaseResolved /\ meName \in Range(ChainFrom(input[5].text, MAX_INHERITANCE_NESTING))) =>
        /\ err = "SelfReference"
        /\ Me = [PART0 EXCEPT !.extends = input[5].text]
        /\ "EXTENDS" \notin contains

\* a part that extends a base other than itself whose chain leads back to it
C5_TransitiveSelfReference ==
    /\ BaseResolved /\ err = "SelfReference"
    /\ input[5].text # meName
    /\ Len(ChainFrom(input[5].text, MAX_INHERITANCE_NESTING)) = MAX_INHERITANCE_NESTING
    /\ ChainFrom(input[5].text, MAX_INHERITANCE_NESTING)[MAX_INHERITANCE_NESTING] = meName

(***************************************************************************)
(* C6.  Part level: when an anchor, reference, value, footprint, datasheet *)
(* or model clause occurs a second time in the part body, Parse raises the *)
(* duplicate-clause error and the field holds the first occurrence's value.*)
(***************************************************************************)
FirstOf(aTok) == CHOOSE i \in ClausesOf(input, aTok) : \A j \in ClausesOf(input, aTok) : i <= j

C6_DuplicateRaised ==
    /\ (Called /\ Cardinality(ClausesOf(input, "T_anchor")) >= 2) =>
          /\ err = "Duplicate"
          /\ Me.anchor = [x |-> internal(input[FirstOf("T_anchor") + 1].num),
                          y |-> internal(input[FirstOf("T_anchor") + 2].num)]
    /\ \A f \in {"reference", "value", "footprint", "datasheet", "model"} :
          (Called /\ Cardinality(ClausesOf(input, "T_" \o f)) >= 2) =>
              /\ err = "Duplicate"
              /\ Me[f].text = input[FirstOf("T_" \o f) + 1].text

(***************************************************************************)
(* C7.  A second extends right after an accepted first one is rejected     *)
(* with the duplicate-clause error.                                        *)
(***************************************************************************)
C7_SecondExtendsIsDuplicate ==
    (BareExtends /\ Len(input) >= 7 /\ input[6].tok = "T_extends"
        /\ Me.base = input[5].text) => err = "Duplicate"

(***************************************************************************)
(* C8.  A body of exactly one datasheet and one model clause parses with   *)
(* both texts stored; a duplicate-clause error naming one of the five text *)
(* field keywords is raised only if that keyword occurred earlier in the   *)
(* body.                                                                   *)
(***************************************************************************)
TextFieldToks == {"T_reference", "T_value", "T_footprint", "T_datasheet", "T_model"}

C8_DatasheetModelIndependent ==
    /\ (Called /\ Cardinality(ClauseKeywords(input)) = 2
          /\ Cardinality(ClausesOf(input, "T_datasheet")) = 1
          /\ Cardinality(ClausesOf(input, "T_model")) = 1) =>
          /\ err = NoErr
          /\ \A i \in ClausesOf(input, "T_datasheet") : Me.datasheet.text = input[i + 1].text
          /\ \A i \in ClausesOf(input, "T_model") : Me.model.text = input[i + 1].text
    /\ (Called /\ err = "Duplicate" /\ what \in TextFieldToks) =>
          \E i \in ClausesOf(input, what) : i < pos

(***************************************************************************)
(* C9.  The converter returns the integer nearest to value * 10000.        *)
(***************************************************************************)
\* the integer nearest to n / d, halves away from zero; value * 10000 is
\* numeral * 10000 / FixedOne, that is numeral / (FixedOne / 10000)
Nearest(n, d) ==
    IF n >= 0 THEN (2 * n + d) \div (2 * d) ELSE -((2 * (-n) + d) \div (2 * d))

C9_ConvertRounds ==
    converted # << >> => converted[1] = Nearest(numeral, FixedOne \div INTERNAL_PER_LOGICAL)

(***************************************************************************)
(* C10.  Parsing the token stream that was just parsed successfully into   *)
(* the same part again succeeds and leaves the part as it was.             *)
(***************************************************************************)
C10_ReparseIdempotent ==
    [][(Returned /\ calls' = calls + 1 /\ input' = input /\ meName' = meName) =>
          (err' = NoErr /\ parts'[meName] = parts[meName])]_vars

(***************************************************************************)
(* Pins: one Parse call on a part whose body is one pin clause.            *)
(***************************************************************************)
\* what a pin body is made of
PinTokens ==
    { << K("input") >>, << K("output") >>, << K("line") >>, << K("inverted") >>,
      Clause(<< K("at"), Whole(0), Whole(0) >>),
      Clause(<< K("length"), Whole(100) >>) }

\* number of flags and clauses in a pin body
MaxPinTokens == 3

PinBodies == {Concat(b) : b \in SeqsUpTo(PinTokens, MaxPinTokens)}

PinStreams == {PartForm(<< >>, Clause(<< K("pin") >> \o b)) : b \in PinBodies}

\* the first Parse call of a run
FirstCall == calls = 0 /\ calls' = 1

ParsePinPart == FirstCall /\ \E t \in PinStreams : Parse("P2", t)

NextPin == NewParser \/ ParsePinPart

SpecPin == Init /\ [][NextPin]_vars

\* positions of the tokens of aTokens that stand directly in the body of a
\* clause of the part body, and belong to aSet
FlagsOf(aTokens, aSet) ==
    {i \in 1..Len(aTokens) : aTokens[i].tok \in aSet /\ Nesting(aTokens, i - 1) = 2}

\* C11: a pin body is accepted only if it holds exactly one electrical-type
\* token and exactly one shape token
C11_PinFlagsMandatory ==
    (Returned /\ input \in PinStreams)
        => /\ Cardinality(FlagsOf(input, PinTypes)) = 1
           /\ Cardinality(FlagsOf(input, PinShapes)) = 1

(***************************************************************************)
(* Graphics: one Parse call on a part whose body is one graphics clause.   *)
(***************************************************************************)
XY(aX, aY) == Clause(<< K("xy"), Whole(aX), Whole(aY) >>)

\* the sub-clauses a graphics body is made of
SubClauses ==
    { Clause(<< K("pts") >>),
      Clause(<< K("pts") >> \o XY(1, 2)),
      Clause(<< K("pts") >> \o XY(1, 2) \o XY(3, 4)),
      Clause(<< K("pts") >> \o XY(5, 6) \o XY(3, 4) \o XY(1, 2)),
      Clause(<< K("line_width"), Whole(2) >>),
      Clause(<< K("fill"), K("none") >>),
      Clause(<< K("fill"), K("filled") >>),
      Clause(<< K("fill"), Sym("hatched") >>),
      Clause(<< K("start"), Whole(1), Whole(2) >>),
      Clause(<< K("end"), Whole(3), Whole(4) >>),
      Clause(<< K("center"), Whole(1), Whole(2) >>),
      Clause(<< K("pos"), Whole(1), Whole(2) >>),
      Clause(<< K("radius"), Whole(5) >>),
      Clause(<< K("at"), Whole(1), Whole(2) >>),
      Clause(<< K("justify"), K("left"), K("top") >>),
      Clause(<< K("font") >> \o Clause(<< K("size"), Whole(1), Whole(1) >>)),
      Clause(<< K("visible"), K("yes") >>) }

\* number of sub-clauses in a graphics body
MaxSubClauses == 2

SubBodies == {Concat(b) : b \in SeqsUpTo(SubClauses, MaxSubClauses)}

\* the keyword of a primitive and what precedes its sub-clauses
Primitives ==
    { << K("line") >>, << K("polyline") >>, << K("bezier") >>, << K("rectangle") >>,
      << K("circle") >>, << K("arc") >>, << K("text"), Sym("hello") >> }

GraphicStreams == {PartForm(<< >>, Clause(p \o b)) : p \in Primitives, b \in SubBodies}

ParseGraphicPart == FirstCall /\ \E t \in GraphicStreams : Parse("P2", t)

NextGraphic == NewParser \/ ParseGraphicPart

SpecGraphic == Init /\ [][NextGraphic]_vars

\* the keyword of the first clause of the part body
FirstKeyword == input[5].tok

\* positions of the keywords of the sub-clauses of the clauses of the part body
SubKeywords(aTokens) ==
    {i \in 6..Len(aTokens) : aTokens[i - 1].tok = "T_LEFT" /\ Nesting(aTokens, i - 2) = 2}

\* the sub-clauses the grammar of a primitive names without brackets
Mandatory(aTok) ==
    CASE aTok \in {"T_line", "T_polyline", "T_bezier"} -> {"T_pts"}
      [] aTok = "T_rectangle" -> {"T_start", "T_end"}
      [] aTok = "T_circle" -> {"T_center", "T_radius"}
      [] aTok = "T_arc" -> {"T_pos", "T_radius", "T_start", "T_end"}
      [] OTHER -> {}

\* C12: a graphics primitive is parsed successfully only if all its mandatory
\* sub-clauses were present; hence each polyline or bezier of a parsed part
\* has at least 2 points
C12_MandatoryPresent ==
    (Returned /\ input \in GraphicStreams)
        => /\ Mandatory(FirstKeyword) \subseteq {input[i].tok : i \in SubKeywords(input)}
           /\ \A g \in Range(Me.graphics) : "pts" \in DOMAIN g => Len(g.pts) >= 2

\* the points of the groups ( xy X Y ) that stand in aTokens from position i
\* on, unit-converted
RECURSIVE XYs(_, _)
XYs(aTokens, i) ==
    IF i + 4 <= Len(aTokens) /\ aTokens[i].tok = "T_LEFT" /\ aTokens[i + 1].tok = "T_xy"
    THEN << [x |-> internal(aTokens[i + 2].num), y |-> internal(aTokens[i + 3].num)] >>
         \o XYs(aTokens, i + 5)
    ELSE << >>

\* the last call parsed a line, polyline or bezier whose first sub-clause is pts
PtsFirst ==
    /\ Called
    /\ input \in GraphicStreams
    /\ FirstKeyword \in {"T_line", "T_polyline", "T_bezier"}
    /\ input[6].tok = "T_LEFT"
    /\ input[7].tok = "T_pts"

\* the points of that pts clause, and the position of its closing parenthesis
PtsGiven == XYs(input, 8)
PtsEnd == 8 + 5 * Len(PtsGiven)

\* C13: a pts clause with fewer than 2 points raises the grammar error
\* ">= 2 pts"; one with 2 or more points is accepted, and the node's points
\* are the input points, unit-converted, in input order
C13_PointList ==
    PtsFirst =>
        IF Len(PtsGiven) < 2
        THEN err = "Expecting" /\ what = ">= 2 pts" /\ pos = PtsEnd
        ELSE /\ Me.graphics[1].pts = PtsGiven
             /\ err # NoErr => pos > PtsEnd

\* three points, given in an order that is not ascending, were parsed
C13_ThreePoints ==
    PtsFirst /\ Returned /\ Len(PtsGiven) = 3 /\ PtsGiven[1].x > PtsGiven[3].x

\* positions of the fill keywords among the sub-clauses of the primitive
Fills == {i \in SubKeywords(input) : input[i].tok = "T_fill"}

\* the first of them
FirstFill == CHOOSE i \in Fills : \A j \in Fills : i <= j

\* the last call parsed a primitive up to its first fill clause, whose value
\* is a symbol outside the enumeration
BadFillReached ==
    /\ Called
    /\ input \in GraphicStreams
    /\ Fills # {}
    /\ IsSymbol(input[FirstFill + 1].tok)
    /\ input[FirstFill + 1].tok \notin FillTypes
    /\ pos >= FirstFill

LateExtends == { << K("extends"), Sym("P1") >>, Clause(<< K("extends"), Sym("P1") >>) }

LateStreams ==
    {PartForm(<< >>, b \o x \o c) :
        b \in Bodies(DerivedClauses) \ {<< >>},
        x \in LateExtends,
        c \in {<< >>, Clause(<< K("value"), Sym("10k") >>)}}

ParseLate == Counted /\ \E t \in LateStreams : Parse("P2", t)

NextLate == NewParser \/ ParseBase \/ ParseLate

SpecLate == Init /\ [][NextLate]_vars

\* the position of the extends keyword in the input
ExtendsAt == CHOOSE i \in 1..Len(input) : input[i].tok = "T_extends"

\* C15: an extends keyword that comes after another clause of the part body
\* is rejected with the "expecting" grammar error; nothing is looked up and
\* nothing is inherited
C15_LateExtendsRejected ==
    (Called /\ input \in LateStreams /\ (err # NoErr => pos >= ExtendsAt))
        => /\ err = "Expecting"
           /\ what = TopLevelExpecting
           /\ Me.extends = NULL
           /\ Me.base = NULL

(***************************************************************************)
(* Clause keywords: one Parse call on a part whose body is one clause,     *)
(* opened by a keyword that the dispatcher names or knows, or by neither.  *)
(***************************************************************************)
\* the keywords that have a case in the switch of Parse
TopLevelCases ==
    { "anchor", "reference", "value", "footprint", "datasheet", "model", "property",
      "pin", "line", "polyline", "rectangle", "circle", "arc", "bezier", "text" }

KeywordsTried == Range(TopLevelNames) \cup TopLevelCases \cup {"bogus"}

\* what follows the keyword in the clause
ClauseTails ==
    { << >>, << Sym("a") >>, << Sym("a"), Sym("b") >>, << Whole(0), Whole(0) >> }

KeywordStreams ==
    {PartForm(<< >>, Clause(<< K(k) >> \o a)) : k \in KeywordsTried, a \in ClauseTails}

ParseKeyword == FirstCall /\ \E t \in KeywordStreams : Parse("P2", t)

NextKeyword == NewParser \/ ParseKeyword

SpecKeyword == Init /\ [][NextKeyword]_vars

\* the dispatcher did not recognize the keyword of the clause
NotRecognized == err = "Expecting" /\ what = TopLevelExpecting /\ pos = 5

\* C16: the keywords that the "expecting" error of the dispatcher names are
\* the keywords that the dispatcher accepts
C16_ExpectedSetIsLegalSet ==
    (Called /\ input \in KeywordStreams)
        => (input[5].text \in Range(TopLevelNames) <=> ~NotRecognized)

(***************************************************************************)
(* Nested clause keywords: one Parse call on a part with one primitive, or *)
(* one pin with one pin text, that holds one nested clause.                *)
(***************************************************************************)
\* the keywords with a case in the switch of each nested parser
PinTextCases == {"font", "visible"}
PolyLineCases == {"pts", "line_width", "fill"}
RectangleCases == {"start", "end", "line_width", "fill"}
CircleCases == {"center", "radius", "line_width", "fill"}
ArcCases == {"pos", "radius", "start", "end", "line_width", "fill"}
TextCases == {"at", "justify", "font", "visible", "fill"}

NestedKeywords ==
    PinTextCases \cup PolyLineCases \cup RectangleCases \cup CircleCases
        \cup ArcCases \cup TextCases \cup {"length", "bogus"}

\* what follows the keyword in the nested clause
NestedTails ==
    { << >>, << Whole(1) >>, << Whole(0), Whole(0) >>, << K("yes") >>, << K("none") >> }

NestedClauses == {Clause(<< K(k) >> \o a) : k \in NestedKeywords, a \in NestedTails}

\* the clause keyword, and what precedes the nested clause
NestedOpenings ==
    {<< K(k) >> : k \in {"line", "polyline", "bezier", "rectangle", "circle", "arc"}}
        \cup {<< K("text"), Sym("hello") >>}

PinTextOpenings == {<< K(k), Sym("A") >> : k \in {"signal", "padname"}}

NestedStreams ==
    {PartForm(<< >>, Clause(o \o c)) : o \in NestedOpenings, c \in NestedClauses}
        \cup {PartForm(<< >>, Clause(<< K("pin"), K("input"), K("line") >> \o Clause(o \o c))) :
                o \in PinTextOpenings, c \in NestedClauses}

ParseNested == FirstCall /\ \E t \in NestedStreams : Parse("P2", t)

NextNested == NewParser \/ ParseNested

SpecNested == Init /\ [][NextNested]_vars

\* where the keyword of the nested clause is: after the last opening parenthesis
InnerAt == 1 + CHOOSE i \in 1..Len(input) :
                   /\ input[i].tok = "T_LEFT"
                   /\ \A j \in (i + 1)..Len(input) : input[j].tok # "T_LEFT"

\* the keyword of the clause that holds the nested clause
InnerParser == IF input[5].tok = "T_pin" THEN input[9].text ELSE input[5].text

InnerCases ==
    CASE InnerParser \in {"signal", "padname"} -> PinTextCases
      [] InnerParser \in {"line", "polyline", "bezier"} -> PolyLineCases
      [] InnerParser = "rectangle" -> RectangleCases
      [] InnerParser = "circle" -> CircleCases
      [] InnerParser = "arc" -> ArcCases
      [] InnerParser = "text" -> TextCases

\* the nested parser did not recognize the keyword of the nested clause
InnerRejected == err = "Expecting" /\ pos = InnerAt

\* the lists of names that an "expecting" text of a nested parser may hold
NameLists ==
    { << "font" >>, << "font", "visible" >>,
      << "pts", "line_width", "fill" >>,
      << "start", "end", "line_width", "fill" >>,
      << "center", "radius", "line_width", "fill" >>,
      << "pos", "radius", "start", "end", "line_width", "fill" >>,
      << "at", "justify", "font", "visible", "fill" >> }

\* the set of names in an "expecting" text
Named(aWhat) ==
    IF \E n \in NameLists : Alternatives(n) = aWhat
    THEN Range(CHOOSE n \in NameLists : Alternatives(n) = aWhat)
    ELSE {}

\* C17: a nested clause keyword outside the legal set of its primitive or pin
\* text raises an "expecting" error, and the set that error names is the
\* legal set of that parser
C17_NestedExpectedSet ==
    (Called /\ input \in NestedStreams)
        => /\ input[InnerAt].text \notin InnerCases <=> InnerRejected
           /\ InnerRejected => Named(what) = InnerCases

(***************************************************************************)
(* The parsed flag of the part.                                            *)
(***************************************************************************)
\* C18: a part whose parse ended in an error does not have its parsed flag
\* set; the flag is set only when Parse returns
C18_ParsedOnlyOnSuccess == (Called /\ err # NoErr) => "PARSED" \notin Me.contains

(***************************************************************************)
(* Nodes: one Parse call on a part whose body is a few graphics and pin    *)
(* clauses, whole or broken inside their body, among other clauses.        *)
(***************************************************************************)
Width(n) == Clause(<< K("line_width"), Whole(n) >>)

NodeClauses ==
    { Clause(<< K("line") >> \o Width(1)),
      Clause(<< K("polyline") >> \o Width(2)),
      Clause(<< K("rectangle") >> \o Width(3)),
      Clause(<< K("circle") >> \o Width(4)),
      Clause(<< K("arc") >> \o Width(5)),
      Clause(<< K("bezier") >> \o Width(6)),
      Clause(<< K("text"), Sym("hello") >>),
      Clause(<< K("pin"), K("input"), K("line") >> \o Clause(<< K("length"), Whole(100) >>)),
      Clause(<< K("pin"), K("output"), K("inverted") >>
             \o Clause(<< K("length"), Whole(200) >>)),
      Clause(<< K("rectangle") >> \o Width(3) \o Clause(<< K("bogus") >>)),
      Clause(<< K("circle") >> \o Clause(<< K("radius") >>)),
      Clause(<< K("line") >> \o Clause(<< K("pts") >> \o XY(0, 0))),
      Clause(<< K("text") >>),
      Clause(<< K("pin"), K("input") >> \o Clause(<< K("length") >>)),
      Clause(<< K("value"), Sym("10k") >>),
      Clause(<< K("bogus") >>) }

MaxNodeClauses == 3

NodeStreams ==
    {PartForm(<< >>, Concat(b)) : b \in SeqsUpTo(NodeClauses, MaxNodeClauses)}

ParseNodes == FirstCall /\ \E t \in NodeStreams : Parse("P2", t)

NextNodes == NewParser \/ ParseNodes

SpecNodes == Init /\ [][NextNodes]_vars

\* the lexer as it stands when the dispatcher has read the keyword at k
LexerAt(k) == NextTok(Lexer(SubSeq(input, k, Len(input))))

\* the node that the clause with its keyword at k makes, parsed on its own
NodeAt(k) ==
    CASE input[k].tok \in {"T_line", "T_polyline"} -> parsePolyLine(LexerAt(k), POLY_LINE0).o
      [] input[k].tok = "T_rectangle" -> parseRectangle(LexerAt(k), RECTANGLE0).o
      [] input[k].tok = "T_circle" -> parseCircle(LexerAt(k), CIRCLE0).o
      [] input[k].tok = "T_arc" -> parseArc(LexerAt(k), ARC0).o
      [] input[k].tok = "T_bezier" -> parseBezier(LexerAt(k), BEZIER0).o
      [] input[k].tok = "T_text" -> parseText(LexerAt(k), GR_TEXT0).o
      [] input[k].tok = "T_pin" -> parsePin(LexerAt(k), PIN0).o

\* the positions, in the order of the input, of the clause keywords among
\* aToks that were read
KeywordsRead(aToks) ==
    {k \in ClauseKeywords(input) : k <= pos /\ input[k].tok \in aToks}

\* the members of a set of numbers in increasing order
RECURSIVE Sorted(_)
Sorted(aSet) ==
    IF aSet = {} THEN << >>
    ELSE LET m == CHOOSE x \in aSet : \A y \in aSet : x <= y
         IN  << m >> \o Sorted(aSet \ {m})

\* the nodes of the clauses at the positions aAt
NodesAt(aAt) == [i \in 1..Len(aAt) |-> NodeAt(aAt[i])]

\* C19: when a Parse call ends, by return or by error, the graphics of the
\* part are the nodes of the graphics clauses that were read, one each and
\* in the order of the input, and its pins those of the pin clauses; the node
\* of a clause that broke inside its body is there, as far as it was parsed,
\* and is the last one
C19_AppendBeforeParse ==
    (Called /\ input \in NodeStreams)
        => /\ Me.graphics = NodesAt(Sorted(KeywordsRead(GraphicsKeywords)))
           /\ Me.pins = NodesAt(Sorted(KeywordsRead({"T_pin"})))

\* a rectangle that broke after its line width is the second and last of the
\* graphics, behind a circle, with that width in place
C19_PartialNodeLast ==
    /\ Called /\ input \in NodeStreams
    /\ err = "Expecting" /\ what = "start|end|line_width|fill"
    /\ Len(Me.pins) = 1
    /\ Len(Me.graphics) = 2
    /\ Me.graphics[1].kind = "CIRCLE"
    /\ Me.graphics[2].kind = "RECTANGLE"
    /\ Me.graphics[2].lineWidth # 0

(***************************************************************************)
(* Scopes: one Parse call on a part with sibling primitives, pins, pin     *)
(* texts, fonts and effects that hold the same kinds of clause.            *)
(***************************************************************************)
BoldFont == Clause(<< K("font") >> \o Clause(<< K("size"), Whole(1), Whole(1) >>) \o << K("bold") >>)

At00 == Clause(<< K("at"), Whole(0), Whole(0) >>)

Visible == Clause(<< K("visible"), K("yes") >>)

FillNone == Clause(<< K("fill"), K("none") >>)

ScopeClauses ==
    { Clause(<< K("polyline") >> \o Width(1) \o FillNone),
      Clause(<< K("line") >> \o Width(1)),
      Clause(<< K("rectangle") >> \o Width(1) \o FillNone
             \o Clause(<< K("start"), Whole(0), Whole(0) >>)),
      Clause(<< K("arc") >> \o Clause(<< K("start"), Whole(0), Whole(0) >>) \o Width(1)
             \o Clause(<< K("radius"), Whole(1) >>)),
      Clause(<< K("circle") >> \o Clause(<< K("radius"), Whole(1) >>) \o FillNone),
      Clause(<< K("text"), Sym("hello") >> \o At00 \o Visible \o BoldFont \o FillNone),
      Clause(<< K("pin"), K("input"), K("line") >> \o At00 \o Visible
             \o Clause(<< K("signal"), Sym("A") >> \o Visible \o BoldFont)
             \o Clause(<< K("padname"), Sym("B") >> \o Visible \o BoldFont)),
      Clause(<< K("pin"), K("output"), K("inverted") >> \o At00 \o Visible),
      Clause(<< K("value"), Sym("10k") >>
             \o Clause(<< K("effects") >> \o At00 \o Visible \o BoldFont)),
      Clause(<< K("reference"), Sym("R") >> \o Clause(<< K("effects") >> \o At00 \o Visible)),
      Clause(<< K("property"), Sym("p"), Sym("v") >>
             \o Clause(<< K("effects") >> \o At00 \o BoldFont)),
      Clause(<< K("line") >> \o Width(1) \o Width(2)),
      Clause(<< K("pin"), K("input"), K("output") >>),
      Clause(<< K("pin"), K("input"), K("line") >>
             \o Clause(<< K("signal"), Sym("A") >> \o Visible \o Visible)) }

MaxScopeClauses == 2

ScopeStreams ==
    {PartForm(<< >>, Concat(b)) : b \in SeqsUpTo(ScopeClauses, MaxScopeClauses)}

ParseScopes == FirstCall /\ \E t \in ScopeStreams : Parse("P2", t)

NextScopes == NewParser \/ ParseScopes

SpecScopes == Init /\ [][NextScopes]_vars

\* the number of parentheses open after each token
Depths(aTokens) ==
    [k \in 1..Len(aTokens) |->
        Cardinality({j \in 1..k : aTokens[j].tok = "T_LEFT"})
            - Cardinality({j \in 1..k : aTokens[j].tok = "T_RIGHT"})]

\* the last parenthesis before i that opened depth d: the one still open at
\* i when the depth there is d or more; 0 if there is none
Opening(aTokens, aDepths, i, d) ==
    LET c == {j \in 1..(i - 1) : aTokens[j].tok = "T_LEFT" /\ aDepths[j] = d}
    IN  IF c = {} THEN 0 ELSE CHOOSE x \in c : \A y \in c : y <= x

\* the keyword at i opens a clause
OpensClause(aTokens, i) == i > 1 /\ aTokens[i - 1].tok = "T_LEFT"

\* for each token, the opening parenthesis of the clause that the token is
\* an element of; a clause keyword counts as an element of the clause around
\* its own clause
ScopesOf(aTokens, aDepths) ==
    [i \in 1..Len(aTokens) |->
        IF OpensClause(aTokens, i) THEN Opening(aTokens, aDepths, i, aDepths[i] - 1)
        ELSE Opening(aTokens, aDepths, i, aDepths[i])]

\* the token at i is of a kind that its scope tracks: any nested clause
\* keyword, the once-only clause keywords of the part, and the bare flags of
\* a pin or a font
Tracked(aTokens, aScopes, i) ==
    IF OpensClause(aTokens, i)
    THEN aScopes[i] > 1
            \/ (aScopes[i] = 1 /\ aTokens[i].tok \in {"T_reference", "T_value"})
    ELSE aTokens[i].tok \in PinTypes \cup PinShapes \cup {"T_bold", "T_italic"}

\* the kinds of a pin's connection type and shape are tracked as one each
KindAt(aTokens, i) ==
    CASE OpensClause(aTokens, i) -> aTokens[i].tok
      [] aTokens[i].tok \in PinTypes -> "type"
      [] aTokens[i].tok \in PinShapes -> "shape"
      [] OTHER -> aTokens[i].tok

\* the positions where a tracked kind occurs again in the same scope
RepeatsIn(aTokens, aScopes) ==
    {i \in 1..Len(aTokens) :
        /\ Tracked(aTokens, aScopes, i)
        /\ \E j \in 1..(i - 1) :
              /\ Tracked(aTokens, aScopes, j)
              /\ aScopes[j] = aScopes[i]
              /\ OpensClause(aTokens, j) = OpensClause(aTokens, i)
              /\ KindAt(aTokens, j) = KindAt(aTokens, i)}

Repeats == RepeatsIn(input, ScopesOf(input, Depths(input)))

\* C20: a duplicate-clause error is raised only where a kind first occurs for
\* the second time in one and the same instance of a primitive, pin, pin text,
\* font, effects or of the part; the same kind in a sibling, an enclosing or
\* a nested instance raises none
C20_ScopesSeparate ==
    (Called /\ input \in ScopeStreams)
        => IF Repeats = {} THEN err = NoErr
           ELSE err = "Duplicate" /\ pos \in Repeats /\ \A i \in Repeats : pos <= i

\* a pin with at and visible, whose signal and padname both have visible and
\* a font, and a text with at, visible and a font, parsed to the end
C20_SiblingsWitness ==
    /\ Returned /\ input \in ScopeStreams
    /\ Len(Me.pins) = 1 /\ Len(Me.graphics) = 1
    /\ Me.pins[1].signal.font.bold /\ Me.pins[1].padname.font.bold
    /\ Me.graphics[1].kind = "GR_TEXT" /\ Me.graphics[1].font.bold

(***************************************************************************)
(* Fonts: one Parse call on a part with one text that holds one font       *)
(* clause, made of a few of: a name, bold, italic, a size group.           *)
(***************************************************************************)
FontTokens ==
    { << Sym("Arial") >>, << K("bold") >>, << K("italic") >>,
      Clause(<< K("size"), Whole(1), Whole(1) >>) }

MaxFontTokens == 3

FontBodies == {Concat(b) : b \in SeqsUpTo(FontTokens, MaxFontTokens)}

FontStreams ==
    {PartForm(<< >>, Clause(<< K("text"), Sym("hello") >> \o Clause(<< K("font") >> \o b))) :
        b \in FontBodies}

ParseFontPart == FirstCall /\ \E t \in FontStreams : Parse("P2", t)

NextFont == NewParser \/ ParseFontPart

SpecFont == Init /\ [][NextFont]_vars

\* the positions of the bare tokens aTok of the font clause, whose keyword is
\* the eighth token
BareAt(aTok) == {i \in 9..Len(input) : input[i].tok = aTok /\ Nesting(input, i - 1) = 3}

\* the positions of the size keywords of the font clause
SizeAt == {i \in 10..Len(input) : input[i].tok = "T_size" /\ input[i - 1].tok = "T_LEFT"}

\* the positions where bold, italic or size occurs again
FontRepeats ==
    {i \in BareAt("T_bold") : \E j \in BareAt("T_bold") : j < i}
        \cup {i \in BareAt("T_italic") : \E j \in BareAt("T_italic") : j < i}
        \cup {i \in SizeAt : \E j \in SizeAt : j < i}

\* the font of the text
TheFont == Me.graphics[1].font

\* C21: in a font clause each bare bold sets the bold flag and each bare
\* italic the italic flag, and the first repeat of bold, italic or size, if
\* the parse gets that far, raises a duplicate error there, also when the
\* repeated keyword is the first token after font
C21_FontFlags ==
    (Called /\ input \in FontStreams)
        => /\ (FontRepeats # {} /\ (err # NoErr => \E i \in FontRepeats : pos >= i))
                 => err = "Duplicate" /\ pos \in FontRepeats
           /\ Returned => /\ TheFont.bold <=> BareAt("T_bold") # {}
                          /\ TheFont.italic <=> BareAt("T_italic") # {}

(***************************************************************************)
(* Properties: one Parse call on a part whose body is a few property       *)
(* clauses, some of the same name, among other clauses.                    *)
(***************************************************************************)
\* property clauses that are whole
WholeProperties ==
    { Clause(<< K("property"), Sym("p"), Sym("v") >>),
      Clause(<< K("property"), Sym("p"), Sym("w") >>),
      Clause(<< K("property"), Sym("q"), Sym("v") >>),
      Clause(<< K("property"), Sym("p"), Sym("x") >> \o Clause(<< K("effects") >> \o At00)) }

PropertyClauses ==
    WholeProperties
        \cup { Clause(<< K("property"), Sym("p") >>),
               Clause(<< K("value"), Sym("10k") >>),
               Clause(<< K("line") >> \o Width(1)) }

MaxProperties == 3

PropertyStreams ==
    {PartForm(<< >>, Concat(b)) : b \in SeqsUpTo(PropertyClauses, MaxProperties)}

ParseProperties == FirstCall /\ \E t \in PropertyStreams : Parse("P2", t)

NextProperties == NewParser \/ ParseProperties

SpecProperties == Init /\ [][NextProperties]_vars

\* the positions of the property keywords that were read, in input order
PropertiesRead == Sorted(KeywordsRead({"T_property"}))

\* every clause of the part body is a property clause
OnlyProperties == \A k \in ClauseKeywords(input) : input[k].tok = "T_property"

\* every property clause of the body is whole: a name, a text and at most an
\* effects clause
AllWhole ==
    \A k \in ClausesOf(input, "T_property") :
        /\ input[k + 1].tok = "T_SYMBOL"
        /\ input[k + 2].tok = "T_SYMBOL"
        /\ input[k + 3].tok \in {"T_RIGHT", "T_LEFT"}

\* C22: the properties of the part are one record per property clause that
\* was read, in the order of the input, with the name and the text of the
\* clause; a body of whole property clauses is accepted whatever the names
C22_PropertiesInOrder ==
    (Called /\ input \in PropertyStreams)
        => /\ Len(Me.properties) = Len(PropertiesRead)
           /\ Returned =>
                \A i \in 1..Len(PropertiesRead) :
                    /\ Me.properties[i].name = input[PropertiesRead[i] + 1].text
                    /\ Me.properties[i].text = input[PropertiesRead[i] + 2].text
           /\ (OnlyProperties /\ AllWhole) => Returned

\* three properties named p, with the texts v, w and x, are all kept in that
\* order
C22_SameNameKept ==
    /\ Returned /\ input \in PropertyStreams
    /\ Len(Me.properties) = 3
    /\ \A i \in 1..3 : Me.properties[i].name = "p"
    /\ Me.properties[1].text = "v"
    /\ Me.properties[2].text = "w"
    /\ Me.properties[3].text = "x"

(***************************************************************************)
(* The base relation of the library as a whole, after any sequence of      *)
(* Parse calls on its parts.                                               *)
(***************************************************************************)
\* a walk along base links that meets every part of a cycle
AllParts == Cardinality(PartNames)

\* C23: no part is among its own ancestors: the base links of the library
\* never form a cycle
C23_BaseAcyclic ==
    \A n \in PartNames : n \notin Range(ChainFrom(parts[n].base, AllParts))

\* a part that another part already extends was parsed again and extends a
\* further part
C23_BaseReparsed ==
    /\ Returned
    /\ Me.base # NULL
    /\ \E n \in PartNames : parts[n].base = meName
    /\ \E n \in PartNames : parts[n].base = Me.base /\ n # meName

\* C24: no part has an inheritance chain, itself and its ancestors, of more
\* than MAX_INHERITANCE_NESTING parts
C24_ChainBound ==
    \A n \in PartNames :
        Len(ChainFrom(n, MAX_INHERITANCE_NESTING + 1)) <= MAX_INHERITANCE_NESTING

(***************************************************************************)
(* The ancestor walk on libraries of every shape: the table handed to      *)
(* Parse holds parts whose base links form a chain that ends, or that runs *)
(* into a loop, or that leads to the part under construction.              *)
(***************************************************************************)
LinkedParts == << "P2", "P3", "P4", "P5", "P6", "P7" >>

\* the base links of a library in which each part of aPath has the next one
\* as its base and the last one has aLast
ShapeOf(aPath, aLast) ==
    [n \in PartNames |->
        IF \E i \in 1..(Len(aPath) - 1) : aPath[i] = n
        THEN aPath[1 + CHOOSE i \in 1..(Len(aPath) - 1) : aPath[i] = n]
        ELSE IF n = aPath[Len(aPath)] THEN aLast ELSE NULL]

LibraryShapes ==
    UNION {{ShapeOf(SubSeq(LinkedParts, 1, k), b) :
                b \in {NULL, "P1"} \cup Range(SubSeq(LinkedParts, 1, k))} :
           k \in 1..Len(LinkedParts)}

\* the table as the caller filled it: parts that were parsed, with those links
InitWalk ==
    /\ contains = {} /\ input = << >> /\ pos = 0 /\ meName = NULL
    /\ err = NoErr /\ what = "" /\ calls = 0
    /\ numeral = 0 /\ converted = << >>
    /\ \E f \in LibraryShapes :
          parts = [n \in PartNames |->
                      [PART0 EXCEPT !.base = f[n], !.contains = {"PARSED"}]]

ParseOnto == FirstCall /\ \E n \in {"P1", "P2"} : \E b \in PartNames : Parse(n, ExtendsStream(b))

NextWalk == NewParser \/ ParseOnto

SpecWalk == InitWalk /\ [][NextWalk]_vars

\* the base links from aName never end
Loops(aName) == Len(ChainFrom(aName, AllParts + 1)) > AllParts

\* the walk that the last call made
TheWalk == ancestorWalk(parts, input[5].text, meName, 0)

\* C25: the ancestor walk visits at most MAX_INHERITANCE_NESTING parts
\* whatever the shape of the chain, and when the chain runs into a loop that
\* the part under construction is not on, parseExtends ends in the
\* depth-exceeded error with nothing inherited and no base recorded
C25_WalkBounded ==
    BaseResolved
        => /\ TheWalk.extendsDepth <= MAX_INHERITANCE_NESTING
           /\ (Loops(input[5].text) /\ meName \notin Range(ChainFrom(input[5].text, AllParts)))
                 => /\ err = "DepthExceeded"
                    /\ Me = [PART0 EXCEPT !.extends = input[5].text]

\* the base extends a part that extends that base again, neither being the
\* part under construction, and the call ended in the depth-exceeded error
C25_LoopRejected ==
    /\ BaseResolved
    /\ err = "DepthExceeded"
    /\ input[5].text # meName
    /\ parts[input[5].text].base \notin {NULL, meName, input[5].text}
    /\ parts[parts[input[5].text].base].base = input[5].text

(***************************************************************************)
(* Where Parse stops.                                                      *)
(***************************************************************************)
\* C26: when Parse returns, the last token it consumed is the parenthesis
\* that closes the part form: no parenthesis is open and no clause of the
\* part body lies beyond it
C26_ReturnsAtClosing ==
    Returned => /\ input[pos].tok = "T_RIGHT"
                /\ Nesting(input, pos) = 0
                /\ \A k \in ClauseKeywords(input) : k < pos

====
